---- MODULE Spec2Model ----
(***************************************************************************)
(* Model of scripts/generate_pages.py: the record normalizer               *)
(* (parse_jmh_result), the history loader (load_records), the trend        *)
(* statistics and uncertainty-band ranking (summarize), the series aligner *)
(* (build_chart_data_map) and the snapshot replay (records_upto_run, the   *)
(* loop of main).                                                          *)
(*                                                                         *)
(* Representation.                                                         *)
(*  - A Python float is a record [k, v]: k = "fin" with v the value in     *)
(*    hundredths (fixed point, two decimals, rounded down), or one of the  *)
(*    IEEE specials "nan", "inf", "ninf".  Python's None is k = "none".    *)
(*    The special values follow IEEE-754 as Python applies it.  The three  *)
(*    places that compute x / y * 100.0 round once (Pct), and the          *)
(*    tolerance 1e-9 of the co-best test is below one step of the grid.    *)
(*    Binary rounding error and overflow of finite doubles are not         *)
(*    modelled.                                                            *)
(*  - A string that is only compared and sorted (run id, run timestamp,    *)
(*    version label, benchmark name) is its rank in the lexicographic      *)
(*    order of all strings: a natural number, 0 being the empty string.    *)
(*    Run ids and run timestamps share one order, as the code compares a   *)
(*    run id used as a timestamp with real timestamps.                     *)
(*  - The descriptive pass-through fields of a Record (score unit,         *)
(*    threads, forks, iterations, time) take no part in any computation    *)
(*    and are left out.                                                    *)
(***************************************************************************)
EXTENDS Integers, Sequences, FiniteSets, TLC

VARIABLES
  prof,            \* the input envelope this run draws its files from
  pyStdev,         \* what statistics.stdev does on non-finite data in this build
  pc,              \* position of main(): "load", "summary", "index", "snapshots", "done", "crashed"
  run_dirs,        \* the run directories load_records has listed, as found on disk
  nextDir,         \* load_records: index of the next run directory
  pending,         \* load_records: result files of the current run still to parse
  payload,         \* the decoded payload of the latest parse_jmh_result call
  parsed,          \* the list that call returned
  records,         \* main: records
  run_metadata,    \* main: run_metadata (run id -> runTimestampUtc or NoKey)
  run_runner,      \* main: run_runner (run id -> the runner document, "{}" for none)
  latest_run_id,   \* main: latest_run_id (0 for None)
  run_order,       \* main: run_order
  summary_rows,    \* main: summary_rows
  index_chart,     \* write_report(index.html): chart_data_map
  snapshots        \* per run id written so far: snapshot_records, snapshot_rows, chart

vars == <<prof, pyStdev, pc, run_dirs, nextDir, pending, payload, parsed, records,
          run_metadata, run_runner, latest_run_id, run_order, summary_rows,
          index_chart, snapshots>>

(***************************************************************************)
(* Floats                                                                  *)
(***************************************************************************)
Scale == 10 * 10   \* one unit of a finite float is 1/Scale

Fin(n) == [k |-> "fin", v |-> n]
NaN == [k |-> "nan", v |-> 0]
PosInf == [k |-> "inf", v |-> 0]
NegInf == [k |-> "ninf", v |-> 0]
None == [k |-> "none", v |-> 0]
Num(n) == Fin(n * Scale)   \* the float of the integer n

IsNone(x) == x.k = "none"
IsFinite(x) == x.k = "fin"                 \* math.isfinite
IsNaN(x) == x.k = "nan"
IsZero(x) == x.k = "fin" /\ x.v = 0        \* x == 0
Sign(x) ==
  CASE x.k = "inf" -> 1
    [] x.k = "ninf" -> -1
    [] x.k = "fin" -> (IF x.v > 0 THEN 1 ELSE IF x.v < 0 THEN -1 ELSE 0)
    [] OTHER -> 0
Signed(s) == IF s >= 0 THEN PosInf ELSE NegInf

\* a > b on floats: false when either side is NaN
FGt(a, b) ==
  CASE IsNaN(a) \/ IsNaN(b) -> FALSE
    [] a.k = "fin" /\ b.k = "fin" -> a.v > b.v
    [] a.k = "inf" -> b.k # "inf"
    [] a.k = "ninf" -> FALSE
    [] OTHER -> b.k = "ninf"
\* a <= b on floats: false when either side is NaN
FLe(a, b) == ~IsNaN(a) /\ ~IsNaN(b) /\ ~FGt(a, b)

FAbs(x) ==
  CASE x.k = "fin" -> Fin(IF x.v < 0 THEN -x.v ELSE x.v)
    [] x.k = "ninf" -> PosInf
    [] OTHER -> x

\* a - b
FSub(a, b) ==
  CASE IsNaN(a) \/ IsNaN(b) -> NaN
    [] a.k = "fin" /\ b.k = "fin" -> Fin(a.v - b.v)
    [] a.k = "fin" -> (IF b.k = "inf" THEN NegInf ELSE PosInf)
    [] b.k = "fin" -> a
    [] a.k = b.k -> NaN
    [] OTHER -> a

\* a / b for b # 0 when one side at least is not finite
FDivSpecial(a, b) ==
  CASE IsNaN(a) \/ IsNaN(b) -> NaN
    [] a.k # "fin" /\ b.k # "fin" -> NaN
    [] a.k # "fin" -> Signed(Sign(a) * Sign(b))
    [] OTHER -> Fin(0)

\* a / b * 100.0 for b # 0: one rounding, to the grid, for finite operands
Pct(a, b) ==
  IF IsFinite(a) /\ IsFinite(b)
    THEN Fin((a.v * 100 * Scale) \div b.v)
    ELSE FDivSpecial(a, b)   \* a special or a zero, which * 100.0 keeps

\* (mutant) (latest / previous) * 100.0
DeltaPct_NoMinusOne(latest, previous) == Pct(latest, previous)

\* ((latest / previous) - 1.0) * 100.0 for previous # 0
DeltaPct(latest, previous) ==
  IF IsFinite(latest) /\ IsFinite(previous)
    THEN Pct(FSub(latest, previous), previous)
    ELSE LET q == FDivSpecial(latest, previous)
         IN  IF IsFinite(q) THEN Fin((q.v - Scale) * 100) ELSE q

RECURSIVE SqrtSearch(_, _, _)
SqrtSearch(x, lo, hi) ==
  IF lo >= hi THEN lo
  ELSE LET mid == (lo + hi + 1) \div 2
       IN  IF mid * mid <= x THEN SqrtSearch(x, mid, hi) ELSE SqrtSearch(x, lo, mid - 1)
\* the integer square root of x >= 0
ISqrt(x) == SqrtSearch(x, 0, 46340)

RECURSIVE SumSeq(_)
SumSeq(s) == IF s = <<>> THEN 0 ELSE Head(s) + SumSeq(Tail(s))

(***************************************************************************)
(* Record normalizer: parse_jmh_result                                     *)
(***************************************************************************)
\* A decoded JSON value as float() and the comparisons of line 44 see it:
\* t = "absent" (no such key), "null", "num" (n its value, NaN and Infinity
\* literals included), "str" (s its text) or "other" (a list, an object).
Raw(t, s, n) == [t |-> t, s |-> s, n |-> n]
Absent == Raw("absent", "", None)
Null == Raw("null", "", None)
JNum(x) == Raw("num", "", x)
JStr(s) == Raw("str", s, None)
JOther == Raw("other", "", None)

\* float(text): the texts the envelopes use; any other text raises ValueError
FloatOfText(s) ==
  CASE s = "NaN" -> [ok |-> TRUE, val |-> NaN]
    [] s = "nan" -> [ok |-> TRUE, val |-> NaN]
    [] s = "Infinity" -> [ok |-> TRUE, val |-> PosInf]
    [] s = "100" -> [ok |-> TRUE, val |-> Num(100)]
    [] s = "104.5" -> [ok |-> TRUE, val |-> Fin(10450)]
    [] OTHER -> [ok |-> FALSE, val |-> None]

\* float(x): ok = FALSE when it raises (TypeError, ValueError)
PyFloat(x) ==
  CASE x.t = "num" -> [ok |-> TRUE, val |-> x.n]
    [] x.t = "str" -> FloatOfText(x.s)
    [] OTHER -> [ok |-> FALSE, val |-> None]

UnknownBenchmark == 0   \* item.get("benchmark", "<unknown>")
NoKey == 0 - 1          \* a key the mapping does not hold

MkRecord(run_id, run_timestamp, version, benchmark, score, score_error) ==
  [run_id |-> run_id, run_timestamp |-> run_timestamp, version |-> version,
   benchmark |-> benchmark, score |-> score, score_error |-> score_error]

\* (mutant) a score error that does not convert counts as not reported
ParseItem_ErrorToNone(item, run_id, run_timestamp, version) ==
  IF ~item.obj \/ item.metric # "obj" \/ item.score.t = "absent" THEN <<>>
  ELSE
    LET score == PyFloat(item.score)
        err == PyFloat(item.scoreError)
    IN  IF ~score.ok THEN <<>>
        ELSE << MkRecord(run_id, run_timestamp, version,
                         IF item.benchmark = NoKey THEN UnknownBenchmark ELSE item.benchmark,
                         score.val, IF err.ok THEN err.val ELSE None) >>

\* The body of the loop, lines 40-61: the records one element appends, none
\* when anything in the try block raises.
\* item = [obj, benchmark, metric, score, scoreError]: obj says the element is
\* an object; metric is "obj", "absent" or "other" (primaryMetric not an object).
ParseItem(item, run_id, run_timestamp, version) ==
  IF ~item.obj THEN <<>>                     \* item.get raises AttributeError
  ELSE IF item.metric # "obj" THEN <<>>      \* {}["score"] / None["score"] raises
  ELSE IF item.score.t = "absent" THEN <<>>  \* KeyError
  ELSE
    LET score == PyFloat(item.score)
        raw == item.scoreError
        isNoneOrNaNText == raw.t \in {"absent", "null"} \/ (raw.t = "str" /\ raw.s = "NaN")
        err == IF isNoneOrNaNText THEN [ok |-> TRUE, val |-> None] ELSE PyFloat(raw)
    IN  IF ~score.ok \/ ~err.ok THEN <<>>
        ELSE << MkRecord(run_id, run_timestamp, version,
                         IF item.benchmark = NoKey THEN UnknownBenchmark ELSE item.benchmark,
                         score.val, err.val) >>

RECURSIVE ParseItems(_, _, _, _)
ParseItems(items, run_id, run_timestamp, version) ==
  IF items = <<>> THEN <<>>
  ELSE ParseItem(Head(items), run_id, run_timestamp, version)
       \o ParseItems(Tail(items), run_id, run_timestamp, version)

\* (mutant) no isinstance test: a payload that is one object is taken as its
\* only element
parse_jmh_result_NoTypeCheck(data, run_id, run_timestamp, version) ==
  ParseItems(data.items, run_id, run_timestamp, version)

\* data = [isList, items]; for a payload that is no list, items holds what the
\* payload is when it is an object, and nothing otherwise
parse_jmh_result(data, run_id, run_timestamp, version) ==
  IF ~data.isList THEN <<>> ELSE ParseItems(data.items, run_id, run_timestamp, version)

\* (mutant) every record has the same key: the stable sort keeps the input order
sort_key_Constant(record) == <<0, 0>>

\* (mutant) the key is the run id alone
sort_key_RunIdOnly(record) == <<record.run_id, record.run_id>>

sort_key(record) == <<record.run_timestamp, record.run_id>>

\* tuple comparison of two (timestamp, run id) keys
KeyLess(a, b) == a[1] < b[1] \/ (a[1] = b[1] /\ a[2] < b[2])
KeyLeq(a, b) == ~KeyLess(b, a)

(***************************************************************************)
(* Trend statistics and uncertainty-band ranking: summarize                *)
(***************************************************************************)
Window == 8                      \* values[-8:]
UncertaintyFloor == 2 * Scale    \* candidates = [2.0]
UncertaintyCap == 20 * Scale     \* min(max(candidates), 20.0)
BandFloor == 2 * Scale           \* max(math.sqrt(...), 2.0)
BandCap == 20 * Scale            \* min(..., 20.0)
Tolerance == 0                   \* 1e-9, which is below one step of the grid

Min(a, b) == IF a <= b THEN a ELSE b
Max(a, b) == IF a >= b THEN a ELSE b

\* list.sort(key=sort_key) is stable: an element goes behind every element
\* whose key is not greater than its own
RECURSIVE InsertByKey(_, _)
InsertByKey(sorted, r) ==
  IF sorted = <<>> THEN <<r>>
  ELSE IF KeyLeq(sort_key(Head(sorted)), sort_key(r))
    THEN <<Head(sorted)>> \o InsertByKey(Tail(sorted), r)
    ELSE <<r>> \o sorted

RECURSIVE SortByKey(_)
SortByKey(s) ==
  IF s = <<>> THEN <<>>
  ELSE InsertByKey(SortByKey(SubSeq(s, 1, Len(s) - 1)), s[Len(s)])

\* (mutant) s[:n]
LastN_First(s, n) == SubSeq(s, 1, Min(n, Len(s)))

\* s[-n:]
LastN(s, n) == SubSeq(s, Max(1, Len(s) - n + 1), Len(s))

\* statistics.fmean: math.fsum raises ValueError on inf + -inf, gives NaN when
\* a NaN is summed, the infinity when one is
fmean(sample) ==
  LET ks == {sample[i].k : i \in DOMAIN sample}
  IN  IF "inf" \in ks /\ "ninf" \in ks THEN [raised |-> TRUE, val |-> None]
      ELSE IF "nan" \in ks THEN [raised |-> FALSE, val |-> NaN]
      ELSE IF "inf" \in ks THEN [raised |-> FALSE, val |-> PosInf]
      ELSE IF "ninf" \in ks THEN [raised |-> FALSE, val |-> NegInf]
      ELSE [raised |-> FALSE,
            val |-> Fin(SumSeq([i \in DOMAIN sample |-> sample[i].v]) \div Len(sample))]

\* sum over i < j of (x_i - x_j)^2 = n * (sum of squared deviations from the mean)
RECURSIVE PairSquares(_)
PairSquares(vs) ==
  IF Len(vs) < 2 THEN 0
  ELSE SumSeq([j \in 1..(Len(vs) - 1) |-> (vs[1] - vs[j + 1]) * (vs[1] - vs[j + 1])])
       + PairSquares(Tail(vs))

\* (mutant) the population standard deviation: the divisor is n, not n - 1
stdev_Population(sample, build) ==
  IF \A i \in DOMAIN sample : IsFinite(sample[i])
    THEN [raised |-> FALSE,
          val |-> Fin(ISqrt(PairSquares([i \in DOMAIN sample |-> sample[i].v])
                            \div (Len(sample) * Len(sample))))]
    ELSE IF build = "raises" THEN [raised |-> TRUE, val |-> None]
    ELSE [raised |-> FALSE, val |-> NaN]

\* statistics.stdev for len(sample) >= 2: exact sum of squares, one square
\* root.  On data that holds a NaN or an infinity the result depends on the
\* Python build: it raises (3.11) or returns NaN.
stdev(sample, build) ==
  IF \A i \in DOMAIN sample : IsFinite(sample[i])
    THEN [raised |-> FALSE,
          val |-> Fin(ISqrt(PairSquares([i \in DOMAIN sample |-> sample[i].v])
                            \div (Len(sample) * (Len(sample) - 1))))]
    ELSE IF build = "raises" THEN [raised |-> TRUE, val |-> None]
    ELSE [raised |-> FALSE, val |-> NaN]

HistoryEntry(value) ==
  [runId |-> value.run_id, runTimestamp |-> value.run_timestamp,
   score |-> value.score, scoreError |-> value.score_error]

\* Lines 114-154: the row of one (version, benchmark) group, before ranking.
\* grouped is the group's records in the order of the input.
SeriesRow(grouped, build) ==
  LET values == SortByKey(grouped)
      n == Len(values)
      latest == values[n]
      delta_percent ==
        IF n > 1 /\ ~IsZero(values[n - 1].score)
          THEN DeltaPct(latest.score, values[n - 1].score) ELSE None
      window == LastN(values, Window)
      sample == [i \in DOMAIN window |-> window[i].score]
      mean == fmean(sample)
      sd == IF Len(sample) >= 2 THEN stdev(sample, build) ELSE [raised |-> FALSE, val |-> None]
      cv_percent ==
        IF ~IsNone(sd.val) /\ ~IsZero(mean.val) THEN Pct(sd.val, mean.val) ELSE None
  IN  IF mean.raised \/ sd.raised THEN [raised |-> TRUE, row |-> <<>>]
      ELSE [raised |-> FALSE,
            row |-> [version |-> latest.version,
                     benchmark |-> latest.benchmark,
                     latestRun |-> latest.run_id,
                     latestTimestamp |-> latest.run_timestamp,
                     latestScore |-> latest.score,
                     latestScoreError |-> latest.score_error,
                     deltaVsPreviousPercent |-> delta_percent,
                     meanLast8 |-> mean.val,
                     stdevLast8 |-> sd.val,
                     cvLast8Percent |-> cv_percent,
                     samples |-> n,
                     history |-> [i \in DOMAIN values |-> HistoryEntry(values[i])]]]

relative_error_percent(score, score_error) ==
  IF IsNone(score_error) \/ IsZero(score) THEN None
  ELSE FAbs(Pct(score_error, score))

\* (mutant) max(candidates), without the cap
uncertainty_percent_NoCap(row) ==
  LET cv == row.cvLast8Percent
      rel_err == relative_error_percent(row.latestScore, row.latestScoreError)
      c1 == IF ~IsNone(cv) /\ IsFinite(cv) THEN FAbs(cv).v ELSE UncertaintyFloor
      c2 == IF ~IsNone(rel_err) /\ IsFinite(rel_err) THEN FAbs(rel_err).v ELSE UncertaintyFloor
  IN  Max(UncertaintyFloor, Max(c1, c2))

\* a number in hundredths, always finite
uncertainty_percent(row) ==
  LET cv == row.cvLast8Percent
      rel_err == relative_error_percent(row.latestScore, row.latestScoreError)
      c1 == IF ~IsNone(cv) /\ IsFinite(cv) THEN FAbs(cv).v ELSE UncertaintyFloor
      c2 == IF ~IsNone(rel_err) /\ IsFinite(rel_err) THEN FAbs(rel_err).v ELSE UncertaintyFloor
  IN  Min(Max(UncertaintyFloor, Max(c1, c2)), UncertaintyCap)

\* max(benchmark_rows, key=latestScore): the first item is kept until a later
\* one compares greater; idxs are positions in rows, best the position kept so far
RECURSIVE PyMax(_, _, _)
PyMax(rows, idxs, best) ==
  IF idxs = <<>> THEN best
  ELSE PyMax(rows, Tail(idxs),
             IF FGt(rows[Head(idxs)].latestScore, rows[best].latestScore)
               THEN Head(idxs) ELSE best)

\* (mutant) the square root, with the floor and without the cap
combined_band_NoCap(best_uncertainty, row_uncertainty) ==
  Max(ISqrt(best_uncertainty * best_uncertainty + row_uncertainty * row_uncertainty),
      BandFloor)

\* (mutant) the two uncertainties are added, not combined in quadrature
combined_band_Sum(best_uncertainty, row_uncertainty) ==
  Min(Max(best_uncertainty + row_uncertainty, BandFloor), BandCap)

combined_band(best_uncertainty, row_uncertainty) ==
  Min(Max(ISqrt(best_uncertainty * best_uncertainty + row_uncertainty * row_uncertainty),
          BandFloor), BandCap)

\* (mutant) not (delta_from_best > combined_band + 1e-9)
co_best_NotGreater(delta_from_best, band) == ~FGt(delta_from_best, Fin(band + Tolerance))

\* delta_from_best <= combined_band + 1e-9
co_best(delta_from_best, band) == FLe(delta_from_best, Fin(band + Tolerance))

\* Lines 182-193 for the row at position i, the best row of its group at position b
RankedRow(rows, i, b) ==
  LET row == rows[i]
      best_score == rows[b].latestScore
      band == combined_band(uncertainty_percent(rows[b]), uncertainty_percent(row))
      delta_from_best ==
        IF ~IsZero(best_score) THEN Pct(FSub(best_score, row.latestScore), best_score)
        ELSE Fin(0)
  IN  [version |-> row.version, benchmark |-> row.benchmark,
       latestRun |-> row.latestRun, latestTimestamp |-> row.latestTimestamp,
       latestScore |-> row.latestScore, latestScoreError |-> row.latestScoreError,
       deltaVsPreviousPercent |-> row.deltaVsPreviousPercent,
       meanLast8 |-> row.meanLast8, stdevLast8 |-> row.stdevLast8,
       cvLast8Percent |-> row.cvLast8Percent, samples |-> row.samples,
       history |-> row.history,
       strictBest |-> (i = b),
       bestBandPercent |-> Fin(band),
       deltaFromBestPercent |-> delta_from_best,
       coBest |-> co_best(delta_from_best, band),
       uncertaintyPercent |-> Fin(uncertainty_percent(row))]

\* the positions of s that satisfy Test, ascending
RECURSIVE PositionsFrom(_, _, _)
PositionsFrom(s, i, b) ==
  IF i > Len(s) THEN <<>>
  ELSE (IF s[i].benchmark = b THEN <<i>> ELSE <<>>) \o PositionsFrom(s, i + 1, b)

\* Lines 158-193: the ranking fields, group by group
Ranked(rows) ==
  [i \in DOMAIN rows |->
     LET group == PositionsFrom(rows, 1, rows[i].benchmark)
     IN  RankedRow(rows, i, PyMax(rows, Tail(group), Head(group)))]

PairLeq(a, b) == a[1] < b[1] \/ (a[1] = b[1] /\ a[2] <= b[2])

RECURSIVE SortedPairs(_)
SortedPairs(S) ==
  IF S = {} THEN <<>>
  ELSE LET m == CHOOSE k \in S : \A o \in S : PairLeq(k, o)
       IN  <<m>> \o SortedPairs(S \ {m})

\* (mutant) the groups are keyed by the benchmark alone
summarize_GroupsByBenchmark(recs, build) ==
  LET keys == SortedPairs({<<recs[i].benchmark, 0>> : i \in DOMAIN recs})
      series == [g \in DOMAIN keys |->
                   SeriesRow(SelectSeq(recs, LAMBDA r : r.benchmark = keys[g][1]), build)]
  IN  IF \E g \in DOMAIN keys : series[g].raised THEN [raised |-> TRUE, rows |-> <<>>]
      ELSE [raised |-> FALSE, rows |-> Ranked([g \in DOMAIN keys |-> series[g].row])]

\* (mutant) an empty record list raises, as max() of an empty list does
summarize_EmptyRaises(recs, build) ==
  LET keys == SortedPairs({<<recs[i].benchmark, recs[i].version>> : i \in DOMAIN recs})
      series == [g \in DOMAIN keys |->
                   SeriesRow(SelectSeq(recs, LAMBDA r : r.benchmark = keys[g][1]
                                                        /\ r.version = keys[g][2]), build)]
  IN  IF recs = <<>> \/ \E g \in DOMAIN keys : series[g].raised
        THEN [raised |-> TRUE, rows |-> <<>>]
        ELSE [raised |-> FALSE, rows |-> Ranked([g \in DOMAIN keys |-> series[g].row])]

\* summarize(records): [raised, rows].  The groups are keyed by (version,
\* benchmark); line 156 sorts the rows by (benchmark, version), and the keys
\* are distinct, so the order of the rows is the order of the sorted keys.
summarize(recs, build) ==
  LET keys == SortedPairs({<<recs[i].benchmark, recs[i].version>> : i \in DOMAIN recs})
      series == [g \in DOMAIN keys |->
                   SeriesRow(SelectSeq(recs, LAMBDA r : r.benchmark = keys[g][1]
                                                        /\ r.version = keys[g][2]), build)]
  IN  IF \E g \in DOMAIN keys : series[g].raised THEN [raised |-> TRUE, rows |-> <<>>]
      ELSE [raised |-> FALSE, rows |-> Ranked([g \in DOMAIN keys |-> series[g].row])]

(***************************************************************************)
(* Series aligner: build_chart_data_map                                    *)
(***************************************************************************)
\* sorted(set of (run_id, run_timestamp), key = (timestamp, run id))
RECURSIVE SortedRuns(_)
SortedRuns(S) ==
  IF S = {} THEN <<>>
  ELSE LET m == CHOOSE a \in S : \A o \in S : KeyLeq(<<a[2], a[1]>>, <<o[2], o[1]>>)
       IN  <<m>> \o SortedRuns(S \ {m})

RECURSIVE SortedInts(_)
SortedInts(S) ==
  IF S = {} THEN <<>>
  ELSE LET m == CHOOSE a \in S : \A o \in S : a <= o
       IN  <<m>> \o SortedInts(S \ {m})

\* run_index = {run_id: idx ...}: a later pair of the same run id overwrites
RunIndex(unique_runs, run_id) ==
  CHOOSE i \in DOMAIN unique_runs :
    /\ unique_runs[i][1] = run_id
    /\ \A j \in DOMAIN unique_runs : unique_runs[j][1] = run_id => j <= i

\* (mutant) the value array starts as zeros, not as gaps
LineValues_ZeroFilled(values, unique_runs, version) ==
  LET mine == SelectSeq(values, LAMBDA r : r.version = version)
  IN  [p \in DOMAIN unique_runs |->
         LET hits == {i \in DOMAIN mine : RunIndex(unique_runs, mine[i].run_id) = p}
         IN  IF hits = {} THEN Fin(0)
             ELSE mine[CHOOSE i \in hits : \A j \in hits : j <= i].score]

\* Lines 241-243: the last record written to a position stays
LineValues(values, unique_runs, version) ==
  LET mine == SelectSeq(values, LAMBDA r : r.version = version)
  IN  [p \in DOMAIN unique_runs |->
         LET hits == {i \in DOMAIN mine : RunIndex(unique_runs, mine[i].run_id) = p}
         IN  IF hits = {} THEN None
             ELSE mine[CHOOSE i \in hits : \A j \in hits : j <= i].score]

\* the chart of one benchmark: the shared run axis, and one value array per version
BenchmarkChart(recs, benchmark) ==
  LET values == SortByKey(SelectSeq(recs, LAMBDA r : r.benchmark = benchmark))
      unique_runs == SortedRuns({<<values[i].run_id, values[i].run_timestamp>> : i \in DOMAIN values})
      versions == SortedInts({values[i].version : i \in DOMAIN values})
  IN  [runs |-> [p \in DOMAIN unique_runs |->
                   [runId |-> unique_runs[p][1], runTimestamp |-> unique_runs[p][2]]],
       series |-> [v \in DOMAIN versions |->
                     [name |-> versions[v],
                      data |-> LineValues(values, unique_runs, versions[v])]]]

build_chart_data_map(recs) ==
  [b \in {recs[i].benchmark : i \in DOMAIN recs} |-> BenchmarkChart(recs, b)]

(***************************************************************************)
(* Run order and snapshot replay                                           *)
(***************************************************************************)
\* run_metadata.get(run_id, {}).get("runTimestampUtc", "")
OrderKey(meta, run_id) == <<IF meta[run_id] = NoKey THEN 0 ELSE meta[run_id], run_id>>

RECURSIVE SortedByOrderKey(_, _)
SortedByOrderKey(meta, S) ==
  IF S = {} THEN <<>>
  ELSE LET m == CHOOSE a \in S : \A o \in S : KeyLeq(OrderKey(meta, a), OrderKey(meta, o))
       IN  <<m>> \o SortedByOrderKey(meta, S \ {m})

sorted_run_ids(meta) == SortedByOrderKey(meta, DOMAIN meta)

\* None is 0, which is no run id
select_latest_run_id(meta) ==
  IF DOMAIN meta = {} THEN 0
  ELSE CHOOSE a \in DOMAIN meta : \A o \in DOMAIN meta : KeyLeq(OrderKey(meta, o), OrderKey(meta, a))

\* make_run_timeline and line 1018
RunOrder(meta) == sorted_run_ids(meta)

\* (mutant) only the records of the run itself
records_upto_run_OnlyThatRun(recs, order, run_id) ==
  SelectSeq(recs, LAMBDA r : r.run_id = run_id)

\* (mutant) the prefix ends before the run: run_order[:idx]
records_upto_run_Exclusive(recs, order, run_id) ==
  IF \A i \in DOMAIN order : order[i] # run_id THEN <<>>
  ELSE LET idx == CHOOSE i \in DOMAIN order : order[i] = run_id
           included == {order[i] : i \in 1..(idx - 1)}
       IN  SelectSeq(recs, LAMBDA r : r.run_id \in included)

\* (mutant) a run id that is not in the run order filters nothing out
records_upto_run_UnknownKeepsAll(recs, order, run_id) ==
  IF \A i \in DOMAIN order : order[i] # run_id THEN recs
  ELSE LET idx == CHOOSE i \in DOMAIN order :
                    order[i] = run_id /\ \A j \in DOMAIN order : order[j] = run_id => i <= j
           included == {order[i] : i \in 1..idx}
       IN  SelectSeq(recs, LAMBDA r : r.run_id \in included)

\* (mutant) the run and the runs after it: run_order[idx:]
records_upto_run_Suffix(recs, order, run_id) ==
  IF \A i \in DOMAIN order : order[i] # run_id THEN <<>>
  ELSE LET idx == CHOOSE i \in DOMAIN order :
                    order[i] = run_id /\ \A j \in DOMAIN order : order[j] = run_id => i <= j
           included == {order[i] : i \in idx..Len(order)}
       IN  SelectSeq(recs, LAMBDA r : r.run_id \in included)

records_upto_run(recs, order, run_id) ==
  IF \A i \in DOMAIN order : order[i] # run_id THEN <<>>
  ELSE LET idx == CHOOSE i \in DOMAIN order :
                    order[i] = run_id /\ \A j \in DOMAIN order : order[j] = run_id => i <= j
           included == {order[i] : i \in 1..idx}
       IN  SelectSeq(recs, LAMBDA r : r.run_id \in included)

(***************************************************************************)
(* Input envelopes: the files a run of the program may find                *)
(***************************************************************************)
HistoryRuns == 2     \* run directories, envelope "history"
RankRuns == 2        \* run directories, envelope "rank"
WindowRuns == 9      \* run directories, envelope "window"
ParseItemsMax == 2   \* elements of a payload, envelope "parse"
LoadRuns == 2        \* run directories, envelope "load"
ExampleRuns == 2     \* run directories, envelope "example"
OrderRuns == 2       \* run directories, envelope "order"

\* the directory names are run ids; the k-th in lexical order has rank 2k, so
\* that a timestamp can sort before, between and after the run ids
RunId(k) == 2 * k

MaxRuns(p) ==
  CASE p = "history" -> HistoryRuns
    [] p = "rank" -> RankRuns
    [] p = "window" -> WindowRuns
    [] p = "load" -> LoadRuns
    [] p = "example" -> ExampleRuns
    [] p = "order" -> OrderRuns
    [] OTHER -> 1

Versions(p) == IF p \in {"history", "rank", "example", "order"} THEN {1, 2} ELSE {1}

\* runTimestampUtc of a run-metadata.json; NoKey: the document has no such key
Timestamps(p) ==
  CASE p = "history" -> {NoKey, 1, 5}
    [] p = "load" -> {NoKey, 1}
    [] p = "example" -> {1, 5}
    [] p = "order" -> {1, 5}
    [] OTHER -> {NoKey}

\* run-metadata.json: [exists, ts]; the envelope "load" has it missing too
MetadataFiles(p) ==
  {[exists |-> TRUE, ts |-> ts] : ts \in Timestamps(p)}
  \cup (IF p = "load" THEN {[exists |-> FALSE, ts |-> NoKey]} ELSE {})

\* runner-info.json: a document, or "absent" for no such file
RunnerFiles(p) == IF p = "load" THEN {"doc", "absent"} ELSE {"doc"}

\* whether the results directory exists
ResultsDirs(p) == IF p = "load" THEN {TRUE, FALSE} ELSE {TRUE}

\* the result files a results directory may hold
FileSets(p) == IF p = "window" THEN {Versions(p)} ELSE SUBSET Versions(p)

Builds(p) == IF p \in {"rank", "parse"} THEN {"raises", "nan"} ELSE {"raises"}

Item(obj, benchmark, metric, score, scoreError) ==
  [obj |-> obj, benchmark |-> benchmark, metric |-> metric, score |-> score,
   scoreError |-> scoreError]
Valid(benchmark, score, scoreError) == Item(TRUE, benchmark, "obj", JNum(score), scoreError)

\* the result file of version 1 and of version 2 draw from different scores,
\* so that ties, a zero best, a NaN and an infinity meet every other score
RankItems(version) ==
  IF version = 1
    THEN {Valid(1, s, Absent) : s \in {Num(0), Num(100), NaN, PosInf}}
    ELSE {Valid(1, s, Absent) : s \in {Num(0), Num(100), Num(104), NaN}}
         \cup {Valid(1, Num(104), JNum(Num(30)))}

ParseElements ==
  { Valid(1, Num(100), Absent),
    Valid(2, Num(100), JNum(Num(3))),
    Valid(1, Num(100), Null),
    Valid(1, Num(100), JStr("NaN")),
    Valid(1, Num(100), JStr("nan")),
    Valid(1, Num(100), JStr("abc")),
    Valid(1, Num(100), JOther),
    Valid(NoKey, Num(100), Absent),
    Item(TRUE, 1, "obj", JStr("104.5"), Absent),
    Item(TRUE, 1, "obj", JStr("NaN"), Absent),
    Item(TRUE, 1, "obj", JStr("abc"), Absent),
    Item(TRUE, 1, "obj", Null, Absent),
    Item(TRUE, 1, "obj", Absent, Absent),
    Item(TRUE, 1, "absent", Absent, Absent),
    Item(TRUE, 1, "other", Absent, Absent),
    Item(FALSE, NoKey, "absent", Absent, Absent) }

ListOf(items) == [isList |-> TRUE, items |-> items]
NotAList == [isList |-> FALSE, items |-> <<>>]
\* a payload that is one well-formed element, not wrapped in a list
ObjectPayload == [isList |-> FALSE, items |-> <<Valid(1, Num(100), Absent)>>]

SeqsUpTo(S, n) == UNION {[1..m -> S] : m \in 0..n}

\* the payloads the result file of a version may hold
Payloads(p, version) ==
  CASE p = "history" ->
         IF version = 1
           THEN {ListOf(<<Valid(1, Num(s), Absent)>>) : s \in {100, 110}}
           ELSE {ListOf(<<Valid(1, Num(100), Absent)>>), ListOf(<<Valid(2, Num(110), Absent)>>)}
    [] p = "rank" -> {ListOf(<<it>>) : it \in RankItems(version)}
    [] p = "window" -> {ListOf(<<Valid(1, Num(s), Absent)>>) : s \in {100, 200}}
    [] p = "load" -> {ListOf(<<Valid(1, Num(100), Absent)>>)}
    [] p = "order" ->
         IF version = 1
           THEN {ListOf(<<Valid(1, Num(100), Absent)>>)}
           ELSE {ListOf(<<Valid(1, Num(104), Absent)>>)}
    [] p = "example" ->
         IF version = 1
           THEN {ListOf(<<Valid(1, Num(s), Absent)>>) : s \in {100, 110}}
           ELSE {ListOf(<<Valid(1, Num(s), Absent)>>) : s \in {95, 150}}
    [] OTHER -> {NotAList, ObjectPayload} \cup {ListOf(items) : items \in SeqsUpTo(ParseElements, ParseItemsMax)}

\* a run directory as load_records finds it: metadata is [exists, ts] for
\* run-metadata.json, runner is runner-info.json, results says whether the
\* results directory exists, files are the result files in it
RunDirs(p) ==
  { [metadata |-> m, runner |-> runner, results |-> res[1], files |-> res[2]] :
      m \in MetadataFiles(p), runner \in RunnerFiles(p),
      res \in {<<r, f>> \in ResultsDirs(p) \X FileSets(p) : r \/ f = {}} }

\* metadata = read_json(metadata_path) if metadata_path.exists() else {}, of
\* which the model keeps runTimestampUtc
ReadMetadata(dir) == IF dir.metadata.exists THEN dir.metadata.ts ELSE NoKey

\* runner = read_json(runner_path) if runner_path.exists() else {}
ReadRunner(dir) == IF dir.runner = "absent" THEN "{}" ELSE dir.runner

(***************************************************************************)
(* main                                                                    *)
(***************************************************************************)
InitOf(p) ==
  /\ prof = p
  /\ pyStdev \in Builds(p)
  /\ pc = "load"
  /\ run_dirs = <<>>
  /\ nextDir = 1
  /\ pending = <<>>
  /\ payload = NotAList
  /\ parsed = <<>>
  /\ records = <<>>
  /\ run_metadata = <<>>
  /\ run_runner = <<>>
  /\ latest_run_id = 0
  /\ run_order = <<>>
  /\ summary_rows = <<>>
  /\ index_chart = <<>>
  /\ snapshots = <<>>

\* (mutant) a run directory without a results directory is skipped before its
\* documents are registered
LoadRunDir_ResultsFirst ==
  /\ pc = "load" /\ pending = <<>> /\ nextDir <= MaxRuns(prof)
  /\ \E dir \in RunDirs(prof) :
       /\ run_dirs' = Append(run_dirs, dir)
       /\ run_metadata' = IF dir.results
                             THEN run_metadata @@ (RunId(nextDir) :> ReadMetadata(dir))
                             ELSE run_metadata
       /\ run_runner' = IF dir.results
                           THEN run_runner @@ (RunId(nextDir) :> ReadRunner(dir))
                           ELSE run_runner
       /\ pending' = IF dir.results THEN SortedInts(dir.files) ELSE <<>>
  /\ nextDir' = nextDir + 1
  /\ UNCHANGED <<prof, pyStdev, pc, payload, parsed, records, latest_run_id,
                 run_order, summary_rows, index_chart, snapshots>>

\* load_records, lines 85-98: the next run directory, its metadata, its result files
LoadRunDir ==
  /\ pc = "load" /\ pending = <<>> /\ nextDir <= MaxRuns(prof)
  /\ \E dir \in RunDirs(prof) :
       /\ run_dirs' = Append(run_dirs, dir)
       /\ run_metadata' = run_metadata @@ (RunId(nextDir) :> ReadMetadata(dir))
       /\ run_runner' = run_runner @@ (RunId(nextDir) :> ReadRunner(dir))
       /\ pending' = IF dir.results THEN SortedInts(dir.files) ELSE <<>>
  /\ nextDir' = nextDir + 1
  /\ UNCHANGED <<prof, pyStdev, pc, payload, parsed, records, latest_run_id,
                 run_order, summary_rows, index_chart, snapshots>>

\* metadata.get("runTimestampUtc", run_id)
RunTimestamp(meta, run_id) == IF meta[run_id] = NoKey THEN run_id ELSE meta[run_id]

\* load_records, lines 100-102: one result file of the current run
ParseResultFile ==
  /\ pc = "load" /\ pending # <<>>
  /\ \E data \in Payloads(prof, Head(pending)) :
       LET run_id == RunId(nextDir - 1)
           got == parse_jmh_result(data, run_id, RunTimestamp(run_metadata, run_id),
                                   Head(pending))
       IN  /\ payload' = data
           /\ parsed' = got
           /\ records' = records \o got
  /\ pending' = Tail(pending)
  /\ UNCHANGED <<prof, pyStdev, pc, run_dirs, nextDir, run_metadata, run_runner,
                 latest_run_id, run_order, summary_rows, index_chart, snapshots>>

\* main, lines 1011-1032: load_records has returned
MainSummary ==
  /\ pc = "load" /\ pending = <<>>
  /\ latest_run_id' = select_latest_run_id(run_metadata)
  /\ run_order' = RunOrder(run_metadata)
  /\ LET res == summarize(records, pyStdev)
     IN  /\ summary_rows' = res.rows
         /\ pc' = IF res.raised THEN "crashed" ELSE "index"
  /\ UNCHANGED <<prof, pyStdev, run_dirs, nextDir, pending, payload, parsed, records,
                 run_metadata, run_runner, index_chart, snapshots>>

\* main, lines 1022-1030: the document written to summary.json once
\* summary_rows is there, without the generation time and the repository name
summary_payload ==
  [totalRecords |-> Len(records),
   totalBenchmarks |-> Len(summary_rows),
   latestRunId |-> latest_run_id,
   runIndex |-> run_order,
   rows |-> summary_rows]

\* main, lines 1034-1045: write_report of index.html
WriteIndex ==
  /\ pc = "index"
  /\ index_chart' = build_chart_data_map(records)
  /\ pc' = "snapshots"
  /\ UNCHANGED <<prof, pyStdev, run_dirs, nextDir, pending, payload, parsed, records,
                 run_metadata, run_runner, latest_run_id, run_order, summary_rows,
                 snapshots>>

\* (mutant) the snapshot sorts the shared record list in place
WriteSnapshot_SortsShared ==
  /\ pc = "snapshots" /\ Len(snapshots) < Len(run_order)
  /\ LET run_id == run_order[Len(snapshots) + 1]
         snapshot_records == records_upto_run(SortByKey(records), run_order, run_id)
         res == summarize(snapshot_records, pyStdev)
     IN  IF res.raised
           THEN pc' = "crashed" /\ UNCHANGED snapshots
           ELSE /\ pc' = pc
                /\ snapshots' = Append(snapshots,
                     [run_id |-> run_id, records |-> snapshot_records,
                      rows |-> res.rows,
                      chart |-> build_chart_data_map(snapshot_records)])
  /\ records' = SortByKey(records)
  /\ UNCHANGED <<prof, pyStdev, run_dirs, nextDir, pending, payload, parsed,
                 run_metadata, run_runner, latest_run_id, run_order, summary_rows,
                 index_chart>>

\* main, lines 1047-1063: the next run id of run_order
WriteSnapshot ==
  /\ pc = "snapshots" /\ Len(snapshots) < Len(run_order)
  /\ LET run_id == run_order[Len(snapshots) + 1]
         snapshot_records == records_upto_run(records, run_order, run_id)
         res == summarize(snapshot_records, pyStdev)
     IN  IF res.raised
           THEN pc' = "crashed" /\ UNCHANGED snapshots
           ELSE /\ pc' = pc
                /\ snapshots' = Append(snapshots,
                     [run_id |-> run_id, records |-> snapshot_records,
                      rows |-> res.rows,
                      chart |-> build_chart_data_map(snapshot_records)])
  /\ UNCHANGED <<prof, pyStdev, run_dirs, nextDir, pending, payload, parsed, records,
                 run_metadata, run_runner, latest_run_id, run_order, summary_rows,
                 index_chart>>

Next == LoadRunDir \/ ParseResultFile \/ MainSummary \/ WriteIndex \/ WriteSnapshot

Init == InitOf("history")
Spec == Init /\ [][Next]_vars

InitRank == InitOf("rank")
SpecRank == InitRank /\ [][Next]_vars

InitWindow == InitOf("window")
SpecWindow == InitWindow /\ [][Next]_vars

InitParse == InitOf("parse")
SpecParse == InitParse /\ [][Next]_vars

InitLoad == InitOf("load")
SpecLoad == InitLoad /\ [][Next]_vars

InitExample == InitOf("example")
SpecExample == InitExample /\ [][Next]_vars

InitOrder == InitOf("order")
SpecOrder == InitOrder /\ [][Next]_vars

\* main has returned
Done == pc = "snapshots" /\ Len(snapshots) = Len(run_order)

(***************************************************************************)
(* Properties                                                              *)
(***************************************************************************)
\* summary_rows holds the rows of the cumulative view
MainView == pc \in {"index", "snapshots"}

\* every row list computed so far, and every row of them
AllRowLists ==
  (IF MainView THEN {summary_rows} ELSE {}) \cup {snapshots[i].rows : i \in DOMAIN snapshots}
AllRows == UNION {{rl[i] : i \in DOMAIN rl} : rl \in AllRowLists}

\* every (records, chart) pair computed so far
AllCharts ==
  (IF pc = "snapshots" THEN {[records |-> records, chart |-> index_chart]} ELSE {})
  \cup {[records |-> snapshots[i].records, chart |-> snapshots[i].chart] : i \in DOMAIN snapshots}

\* C1: the snapshot of the chronologically last run id (the last element of
\* the run order, which is the latest run id) holds every record, and its rows
\* and aligned series are those of the cumulative view.
C1_LastSnapshotIsCumulative ==
  \A i \in DOMAIN snapshots :
    i = Len(run_order) =>
      /\ snapshots[i].run_id = latest_run_id
      /\ snapshots[i].records = records
      /\ snapshots[i].rows = summary_rows
      /\ snapshots[i].chart = index_chart

C1_Witness ==
  /\ Done /\ Len(run_order) = 2
  /\ \A k \in 1..2 : \E j \in DOMAIN records : records[j].run_id = run_order[k]
  /\ snapshots[1].rows # summary_rows
  /\ snapshots[2].rows = summary_rows

\* the position of a run id in the run order
PositionIn(order, run_id) == CHOOSE i \in DOMAIN order : order[i] = run_id

\* C2: for a run order without repeated ids, the snapshot of run R holds
\* exactly the records whose run id is at or before R in the run order, in
\* their original relative order, whatever the records' timestamps.
C2_SnapshotIsRunOrderPrefix ==
  \A i \in DOMAIN snapshots :
    snapshots[i].records =
      SelectSeq(records, LAMBDA r : \E j \in 1..i : run_order[j] = r.run_id)

\* a record is kept although a dropped record has an earlier timestamp
C2_Witness ==
  \E i \in DOMAIN snapshots :
    \E a \in DOMAIN records, b \in DOMAIN records :
      /\ PositionIn(run_order, records[a].run_id) <= i
      /\ PositionIn(run_order, records[b].run_id) > i
      /\ records[b].run_timestamp < records[a].run_timestamp
      /\ \E k \in DOMAIN snapshots[i].records : snapshots[i].records[k] = records[a]

\* C3: in every row list, every benchmark group has exactly one row with
\* strictBest, and that row has coBest.
C3_OneStrictBestAndCoBest ==
  \A rl \in AllRowLists :
    \A i \in DOMAIN rl :
      LET best == {j \in DOMAIN rl : rl[j].benchmark = rl[i].benchmark /\ rl[j].strictBest}
      IN  Cardinality(best) = 1 /\ \A j \in best : rl[j].coBest

\* C4: coBest is true exactly when deltaFromBestPercent <= bestBandPercent
\* + tolerance (a NaN delta compares false).
C4_CoBestIffWithinBand ==
  \A row \in AllRows :
    row.coBest <=>
      /\ row.deltaFromBestPercent.k # "nan"
      /\ row.deltaFromBestPercent.k # "inf"
      /\ (row.deltaFromBestPercent.k = "fin" =>
            row.deltaFromBestPercent.v <= row.bestBandPercent.v + Tolerance)

\* a row that is not the best is co-best, another in the same list is not,
\* and a row with a NaN delta exists
C4_Witness ==
  /\ \E row \in AllRows : ~row.strictBest /\ row.coBest /\ row.deltaFromBestPercent.v > 0
  /\ \E row \in AllRows : ~row.coBest /\ row.deltaFromBestPercent.k = "fin"

\* C5: uncertaintyPercent is a finite number in [2, 20] for every row.
C5_UncertaintyClamped ==
  \A row \in AllRows :
    /\ row.uncertaintyPercent.k = "fin"
    /\ 2 * Scale <= row.uncertaintyPercent.v
    /\ row.uncertaintyPercent.v <= 20 * Scale

\* a row whose CV% is above 20 and whose uncertainty is 20, with another row at
\* the floor whose CV% is absent
C5_Witness ==
  /\ \E row \in AllRows :
       /\ row.cvLast8Percent.k = "fin" /\ row.cvLast8Percent.v > 20 * Scale
       /\ row.uncertaintyPercent.v = 20 * Scale
  /\ \E row \in AllRows :
       /\ row.latestScoreError.k = "fin" /\ row.uncertaintyPercent.v = 20 * Scale
  /\ \E row \in AllRows : row.cvLast8Percent.k = "none" /\ row.uncertaintyPercent.v = 2 * Scale

\* C6: every history list is in non-decreasing (run timestamp, run id) order
\* and the latest fields are those of its last element.
C6_HistorySortedLatestLast ==
  \A row \in AllRows :
    LET h == row.history
        n == Len(h)
    IN  /\ n = row.samples /\ n >= 1
        /\ \A i \in 1..(n - 1) :
             \/ h[i].runTimestamp < h[i + 1].runTimestamp
             \/ (h[i].runTimestamp = h[i + 1].runTimestamp /\ h[i].runId <= h[i + 1].runId)
        /\ row.latestRun = h[n].runId
        /\ row.latestTimestamp = h[n].runTimestamp
        /\ row.latestScore = h[n].score

\* a series that the sort reordered: the run loaded later comes first
C6_Witness ==
  \E row \in AllRows :
    /\ Len(row.history) = 2
    /\ row.history[1].runId > row.history[2].runId
    /\ row.history[1].score # row.history[2].score

\* C7: deltaVsPreviousPercent is absent exactly when the series has fewer
\* than 2 samples or the second-to-last score is 0; otherwise it is
\* (latest / previous - 1) * 100.
C7_DeltaVsPrevious ==
  \A row \in AllRows :
    LET h == row.history
        n == Len(h)
        d == row.deltaVsPreviousPercent
    IN  /\ (d.k = "none") <=> (n < 2 \/ (h[n - 1].score.k = "fin" /\ h[n - 1].score.v = 0))
        /\ (d.k # "none" /\ h[n].score.k = "fin" /\ h[n - 1].score.k = "fin") =>
             d = Fin(((h[n].score.v - h[n - 1].score.v) * 100 * Scale) \div h[n - 1].score.v)
        /\ (d.k # "none" /\ (h[n].score.k = "nan" \/ h[n - 1].score.k = "nan")) => d.k = "nan"

\* a finite nonzero delta, an absent delta after a zero score, and a single sample
C7_Witness ==
  /\ \E row \in AllRows : row.deltaVsPreviousPercent.k = "fin" /\ row.deltaVsPreviousPercent.v = 4 * Scale
  /\ \E row \in AllRows :
       /\ row.samples = 2 /\ row.deltaVsPreviousPercent.k = "none"
       /\ row.latestScore.k = "fin" /\ row.latestScore.v > 0
  /\ \E row \in AllRows : row.samples = 1 /\ row.deltaVsPreviousPercent.k = "none"

\* the sum of the scores of history entries lo..hi
RECURSIVE ScoreSum(_, _, _)
ScoreSum(h, lo, hi) == IF lo > hi THEN 0 ELSE h[lo].score.v + ScoreSum(h, lo + 1, hi)

\* C8: the rolling statistics are those of the last min(8, N) scores of the
\* series; stdev and CV% are absent below 2 samples and present from 2 on
\* (CV% for a nonzero mean).
C8_WindowIsLast8 ==
  \A row \in AllRows :
    LET h == row.history
        n == Len(h)
        m == IF n < 8 THEN n ELSE 8
        w == [i \in 1..m |-> h[n - m + i].score]
    IN  (\A i \in 1..n : h[i].score.k = "fin") =>
          /\ row.meanLast8 = Fin(ScoreSum(h, n - m + 1, n) \div m)
          /\ (m < 2 => row.stdevLast8.k = "none" /\ row.cvLast8Percent.k = "none")
          /\ (m >= 2 =>
                /\ row.stdevLast8.k = "fin"
                /\ row.stdevLast8 = stdev(w, pyStdev).val
                /\ (row.meanLast8.v # 0 => row.cvLast8Percent.k = "fin"))

\* a series of more than 8 samples whose oldest sample differs from all in the window
C8_Witness ==
  \E row \in AllRows :
    /\ Len(row.history) > 8
    /\ \A i \in 2..Len(row.history) : row.history[i].score # row.history[1].score
    /\ row.stdevLast8 = Fin(0)

\* C9: per benchmark, the axis has one position per distinct (run id, run
\* timestamp) pair of the benchmark's records, every value array is as long as
\* the axis, and a value is a gap exactly when the version has no record on the
\* run of that position.
C9_SeriesAligned ==
  \A c \in AllCharts :
    \A b \in DOMAIN c.chart :
      LET recs == c.records
          ch == c.chart[b]
          pairs == {<<recs[i].run_id, recs[i].run_timestamp>> :
                      i \in {j \in DOMAIN recs : recs[j].benchmark = b}}
      IN  /\ Len(ch.runs) = Cardinality(pairs)
          /\ \A s \in DOMAIN ch.series :
               /\ Len(ch.series[s].data) = Len(ch.runs)
               /\ \A p \in DOMAIN ch.runs :
                    (ch.series[s].data[p].k # "none") <=>
                      \E i \in DOMAIN recs :
                        /\ recs[i].benchmark = b
                        /\ recs[i].version = ch.series[s].name
                        /\ recs[i].run_id = ch.runs[p].runId
                        /\ recs[i].run_timestamp = ch.runs[p].runTimestamp

\* two benchmarks; two versions on an axis of two runs, one of them with a gap
C9_Witness ==
  \E c \in AllCharts :
    \E b \in DOMAIN c.chart :
      /\ Cardinality(DOMAIN c.chart) = 2
      /\ Len(c.chart[b].runs) = 2
      /\ Len(c.chart[b].series) = 2
      /\ \E s \in DOMAIN c.chart[b].series : c.chart[b].series[s].data[1].k = "none"
      /\ \E s \in DOMAIN c.chart[b].series :
           \A p \in 1..2 : c.chart[b].series[s].data[p].k # "none"

\* the texts float() converts
ConvertibleText == {"NaN", "nan", "Infinity", "100", "104.5"}

\* the primary score of an element is there and converts to a float
ScoreConverts(item) ==
  /\ item.obj /\ item.metric = "obj"
  /\ \/ item.score.t = "num"
     \/ item.score.t = "str" /\ item.score.s \in ConvertibleText

\* the score error of an element is there, is not None or "NaN", and does not
\* convert to a float
ErrorFails(item) ==
  /\ item.scoreError.t \notin {"absent", "null"}
  /\ ~(item.scoreError.t = "str" /\ item.scoreError.s = "NaN")
  /\ ~(item.scoreError.t = "num")
  /\ ~(item.scoreError.t = "str" /\ item.scoreError.s \in ConvertibleText)

KeepByScore(item) == ScoreConverts(item)
KeepByScoreAndError(item) == ScoreConverts(item) /\ ~ErrorFails(item)

\* the score of an element whose score converts
ScoreOf(item) ==
  IF item.score.t = "num" THEN item.score.n
  ELSE IF item.score.s \in {"NaN", "nan"} THEN NaN
  ELSE IF item.score.s = "Infinity" THEN PosInf
  ELSE IF item.score.s = "100" THEN Fin(100 * Scale)
  ELSE Fin(104 * Scale + Scale \div 2)

\* (benchmark, score) of the elements kept, in input order; errorsToo says
\* whether a failing score error drops an element
RECURSIVE KeptBenchmarks(_, _)
KeptBenchmarks(items, errorsToo) ==
  IF items = <<>> THEN <<>>
  ELSE (IF (IF errorsToo THEN KeepByScoreAndError(Head(items)) ELSE KeepByScore(Head(items)))
          THEN << <<IF Head(items).benchmark = NoKey THEN 0 ELSE Head(items).benchmark,
                    ScoreOf(Head(items))>> >>
          ELSE <<>>)
       \o KeptBenchmarks(Tail(items), errorsToo)

\* C10 as claimed: on a list payload an element is dropped exactly when its
\* primary score is missing or does not convert; every other element yields
\* one Record, in input order.
C10_DropsExactlyBadScores ==
  payload.isList =>
    [i \in DOMAIN parsed |-> <<parsed[i].benchmark, parsed[i].score>>] = KeptBenchmarks(payload.items, FALSE)

\* C10 as amended: an element is dropped exactly when its primary score is
\* missing or does not convert, or its score error is present, is neither
\* None nor the text "NaN", and does not convert; every other element yields
\* one Record, in input order.
C10_DropsBadScoresAndBadErrors ==
  payload.isList =>
    [i \in DOMAIN parsed |-> <<parsed[i].benchmark, parsed[i].score>>]
      = KeptBenchmarks(payload.items, TRUE)

\* one element with a bad score among otherwise valid objects: one record less
C10_Witness ==
  /\ payload.isList /\ Len(payload.items) = 2
  /\ ~ScoreConverts(payload.items[1]) /\ payload.items[1].obj
  /\ payload.items[1].score.t = "str"
  /\ ScoreConverts(payload.items[2]) /\ ~ErrorFails(payload.items[2])
  /\ Len(parsed) = 1

\* run ids that are not in the run order: the empty name, names between the
\* directory names and names after the last of them
UnknownRunIds == (0..(2 * MaxRuns(prof) + 2)) \ {run_order[i] : i \in DOMAIN run_order}

\* C11: records_upto_run called with a run id that is not in the run order
\* returns the empty record list without raising, and summarize and
\* build_chart_data_map on that list give an empty row list and an empty chart
\* map.
C11_UnknownRunGivesEmpty ==
  MainView =>
    \A id \in UnknownRunIds :
      LET restricted == records_upto_run(records, run_order, id)
      IN  /\ restricted = <<>>
          /\ ~summarize(restricted, pyStdev).raised
          /\ summarize(restricted, pyStdev).rows = <<>>
          /\ DOMAIN build_chart_data_map(restricted) = {}

\* the history has records of two runs, and there are run ids outside the order
C11_Witness ==
  /\ MainView /\ Len(run_order) = 2
  /\ \A k \in 1..2 : \E j \in DOMAIN records : records[j].run_id = run_order[k]
  /\ Cardinality(UnknownRunIds) >= 2

\* the names of the run directories load_records has gone through
LoadedRunIds == {RunId(k) : k \in DOMAIN run_dirs}

\* C12: every run directory gets an entry in the run-metadata and in the
\* runner mapping, the empty mapping when the document is absent, also when the
\* run has no results directory; such a run contributes no record, and the run
\* id of every record is a key of the run metadata.  Nothing raises.
C12_EveryRunDirIsRegistered ==
  /\ DOMAIN run_metadata = LoadedRunIds
  /\ DOMAIN run_runner = LoadedRunIds
  /\ \A k \in DOMAIN run_dirs :
       /\ ~run_dirs[k].metadata.exists => run_metadata[RunId(k)] = NoKey
       /\ run_dirs[k].runner = "absent" => run_runner[RunId(k)] = "{}"
       /\ run_dirs[k].runner # "absent" => run_runner[RunId(k)] = run_dirs[k].runner
       /\ ~run_dirs[k].results => \A i \in DOMAIN records : records[i].run_id # RunId(k)
  /\ {records[i].run_id : i \in DOMAIN records} \subseteq DOMAIN run_metadata
  /\ pc # "crashed"

\* main has returned; one run has neither documents nor a results directory,
\* another has its documents and a record
C12_Witness ==
  /\ Done
  /\ \E k \in DOMAIN run_dirs :
       /\ ~run_dirs[k].metadata.exists /\ run_dirs[k].runner = "absent" /\ ~run_dirs[k].results
       /\ RunId(k) \in DOMAIN run_metadata
  /\ \E k \in DOMAIN run_dirs :
       /\ run_dirs[k].metadata.exists /\ run_dirs[k].runner = "doc"
       /\ \E i \in DOMAIN records : records[i].run_id = RunId(k)

\* None or a finite float
AbsentOrFinite(x) == x.k \in {"none", "fin"}

\* C13: no non-finite derived number reaches a row: where the CV%, the delta
\* against the previous sample, the rolling mean or stdev, or the delta from
\* best would be NaN or infinite, the row carries None, and summarize does not
\* raise on such data.
C13_NonFiniteIsAbsent ==
  /\ pc # "crashed"
  /\ \A row \in AllRows :
       /\ AbsentOrFinite(row.cvLast8Percent)
       /\ AbsentOrFinite(row.deltaVsPreviousPercent)
       /\ AbsentOrFinite(row.meanLast8)
       /\ AbsentOrFinite(row.stdevLast8)
       /\ AbsentOrFinite(row.deltaFromBestPercent)

\* C14: on an empty record list summarize returns an empty row list and
\* build_chart_data_map an empty mapping, and nothing raises; for the whole
\* history being empty and for a snapshot whose prefix holds only runs without
\* records.
C14_EmptyRecordsGiveEmptyViews ==
  /\ pc # "crashed"
  /\ (MainView /\ records = <<>>) => summary_rows = <<>>
  /\ (pc = "snapshots" /\ records = <<>>) => DOMAIN index_chart = {}
  /\ \A i \in DOMAIN snapshots :
       snapshots[i].records = <<>> =>
         snapshots[i].rows = <<>> /\ DOMAIN snapshots[i].chart = {}

\* the first run of the run order has no record, the second has: the first
\* snapshot is empty and the second is not
C14_Witness ==
  /\ Done /\ Len(run_order) = 2
  /\ snapshots[1].records = <<>> /\ snapshots[1].rows = <<>>
  /\ snapshots[2].rows # <<>>

\* main has returned on a history of run directories without any record
C14_EmptyHistoryDone == Done /\ Len(run_order) = 2 /\ records = <<>>

\* C15: in summary.json, totalBenchmarks is the number of distinct benchmark
\* names among all records and totalRecords is the number of records.
C15_TotalsCountRecordsAndBenchmarks ==
  MainView =>
    /\ summary_payload.totalRecords = Len(records)
    /\ summary_payload.totalBenchmarks
         = Cardinality({records[i].benchmark : i \in DOMAIN records})

\* every snapshot written so far is what its computation gives now, whatever
\* has been computed since
SnapshotsAreRecomputable ==
  \A i \in DOMAIN snapshots :
    LET again == records_upto_run(records, run_order, snapshots[i].run_id)
    IN  /\ snapshots[i].records = again
        /\ snapshots[i].rows = summarize(again, pyStdev).rows
        /\ snapshots[i].chart = build_chart_data_map(again)

\* computing a view leaves the record list, the run order, the rows and chart
\* of the cumulative view and every snapshot written before as they were
ViewsLeaveTheRestAlone ==
  MainView =>
    /\ records' = records
    /\ run_order' = run_order
    /\ summary_rows' = summary_rows
    /\ pc = "snapshots" => index_chart' = index_chart
    /\ \A i \in DOMAIN snapshots : snapshots'[i] = snapshots[i]

\* C16: each snapshot is a pure function of (record list, run order, target
\* run id): computing the cumulative view or a snapshot leaves the shared record
\* list (contents and order) and the rows of every other view unchanged, so a
\* snapshot has the same result whenever it is computed.
C16_SnapshotsArePure == [](SnapshotsAreRecomputable) /\ [][ViewsLeaveTheRestAlone]_vars

\* the record list is not in (timestamp, run id) order, both snapshots are
\* written and they differ
C16_Witness ==
  /\ Done /\ Len(run_order) = 2
  /\ records # SortByKey(records)
  /\ snapshots[1].rows # <<>>
  /\ snapshots[1].rows # snapshots[2].rows

\* C17: no two records share (run id, version, benchmark), so every history
\* holds at most one record per run and the samples count of a row is the
\* number of runs in which its version was measured on its benchmark.
C17_OneRecordPerObservation ==
  /\ \A i \in DOMAIN records, j \in DOMAIN records :
       (i # j) =>
         <<records[i].run_id, records[i].version, records[i].benchmark>>
           # <<records[j].run_id, records[j].version, records[j].benchmark>>
  /\ \A row \in AllRows :
       row.samples = Cardinality({row.history[i].runId : i \in DOMAIN row.history})

\* C18: two records of different runs are in the same relative order under
\* the series sort key (run timestamp, run id) as their runs are in the run
\* order, also for runs whose metadata has no timestamp.
C18_SeriesOrderIsRunOrder ==
  MainView =>
    \A i \in DOMAIN records, j \in DOMAIN records :
      records[i].run_id # records[j].run_id =>
        (KeyLess(<<records[i].run_timestamp, records[i].run_id>>,
                 <<records[j].run_timestamp, records[j].run_id>>)
           <=> PositionIn(run_order, records[i].run_id)
                 < PositionIn(run_order, records[j].run_id))

\* the scores of a row's history, oldest first
HistoryScores(row) == [i \in DOMAIN row.history |-> row.history[i].score]

\* the row list of the end-to-end example: runs R1 then R2, version a (1)
\* scoring 100 then 110 and version b (2) scoring 95 then 150 on one benchmark,
\* no score error
IsExample(rl) ==
  /\ Len(rl) = 2
  /\ rl[1].version = 1 /\ rl[2].version = 2
  /\ HistoryScores(rl[1]) = <<Num(100), Num(110)>>
  /\ HistoryScores(rl[2]) = <<Num(95), Num(150)>>
  /\ \A r \in 1..2 :
       /\ rl[r].history[1].runId = RunId(1) /\ rl[r].history[2].runId = RunId(2)
       /\ rl[r].history[1].runTimestamp < rl[r].history[2].runTimestamp
       /\ rl[r].latestScoreError = None

\* x is about the percentage tenths / 10: within 0.05 of it
About(x, tenths) ==
  /\ x.k = "fin"
  /\ tenths * (Scale \div 10) - Scale \div 20 <= x.v
  /\ x.v <= tenths * (Scale \div 10) + Scale \div 20

\* C19: in the end-to-end example, at R2, b is the strict-best row, a's delta
\* from best is (150 - 110) / 150 * 100 (about 26.7), a's uncertainty is its
\* CV% (about 6.7), b's uncertainty is capped at 20 (its CV% is above), and a is
\* not co-best.
C19_ExampleRanking ==
  \A rl \in AllRowLists :
    IsExample(rl) =>
      /\ rl[2].strictBest /\ ~rl[1].strictBest
      /\ rl[1].deltaFromBestPercent = Fin(((150 - 110) * 100 * Scale) \div 150)
      /\ About(rl[1].deltaFromBestPercent, 267)
      /\ rl[1].uncertaintyPercent = rl[1].cvLast8Percent
      /\ About(rl[1].uncertaintyPercent, 67)
      /\ rl[2].cvLast8Percent.k = "fin" /\ rl[2].cvLast8Percent.v > 20 * Scale
      /\ rl[2].uncertaintyPercent = Fin(20 * Scale)
      /\ ~rl[1].coBest /\ rl[2].coBest

\* main has returned and the snapshot of R2 and the cumulative view hold the example
C19_Witness ==
  /\ Done /\ Len(snapshots) = 2
  /\ IsExample(summary_rows)
  /\ IsExample(snapshots[2].rows)

\* C20 as claimed: in the end-to-end example the combined band of row a at R2
\* is sqrt(20^2 + 6.7^2), about 21.1 percent.
C20_ExampleBandIsRoot ==
  \A rl \in AllRowLists :
    IsExample(rl) => About(rl[1].bestBandPercent, 211)

\* C20 as amended: in the end-to-end example the combined band of row a at R2
\* is clamp(sqrt(20^2 + 6.7^2), 2, 20) = 20 percent, the root (about 21.1)
\* being above the cap.
C20_ExampleBandIsCapped ==
  \A rl \in AllRowLists :
    IsExample(rl) =>
      /\ About(Fin(ISqrt(rl[2].uncertaintyPercent.v * rl[2].uncertaintyPercent.v
                         + rl[1].uncertaintyPercent.v * rl[1].uncertaintyPercent.v)), 211)
      /\ rl[1].bestBandPercent = Fin(20 * Scale)

\* the snapshot of R2 holds the example, and the band of row a is below the root
C20_Witness ==
  \E i \in DOMAIN snapshots :
    /\ snapshots[i].run_id = RunId(2)
    /\ IsExample(snapshots[i].rows)
    /\ snapshots[i].rows[1].bestBandPercent.v
         < ISqrt(snapshots[i].rows[2].uncertaintyPercent.v * snapshots[i].rows[2].uncertaintyPercent.v
                 + snapshots[i].rows[1].uncertaintyPercent.v * snapshots[i].rows[1].uncertaintyPercent.v)

\* the score error of an element is absent, null, the text "NaN" or a NaN
ErrorAbsentOrNaN(item) ==
  \/ item.scoreError.t \in {"absent", "null"}
  \/ item.scoreError.t = "num" /\ item.scoreError.n.k = "nan"
  \/ item.scoreError.t = "str" /\ item.scoreError.s \in {"NaN", "nan"}

\* C21: a score error that is absent or NaN becomes None: every Record has a
\* score_error that is None or a real number, and an element whose score
\* converts and whose score error is absent or NaN is kept.
C21_ErrorIsNoneOrReal ==
  /\ \A i \in DOMAIN parsed : parsed[i].score_error.k \in {"none", "fin"}
  /\ (payload.isList /\ \A i \in DOMAIN payload.items :
                            ScoreConverts(payload.items[i]) /\ ErrorAbsentOrNaN(payload.items[i]))
       => Len(parsed) = Len(payload.items)

\* C22: parse_jmh_result on a decoded payload that is not a list returns the
\* empty list; it raises nothing and adds no record.
C22_NonListGivesNoRecords ==
  ~payload.isList => parsed = <<>> /\ records = <<>>

\* main has returned after reading a result file that holds a single object
C22_Witness ==
  /\ Done /\ Len(run_dirs) = 1 /\ run_dirs[1].files # {}
  /\ payload = ObjectPayload
  /\ parsed = <<>>

\* C23: in each benchmark group the strict-best row has a latestScore that is
\* >= the latestScore of every other row of the group, and among the rows that share
\* that maximum it is the one with the smallest version label.
C23_StrictBestIsMaximum ==
  \A rl \in AllRowLists :
    \A i \in DOMAIN rl, j \in DOMAIN rl :
      (rl[i].strictBest /\ j # i /\ rl[j].benchmark = rl[i].benchmark) =>
        /\ FLe(rl[j].latestScore, rl[i].latestScore)
        /\ rl[j].latestScore = rl[i].latestScore => rl[i].version <= rl[j].version

\* C24: for every row, the best row included, bestBandPercent is
\* clamp(sqrt(best.uncertainty^2 + row.uncertainty^2), 2, 20), best being the
\* strict-best row of the group; so it is in [2, 20] and not below
\* min(20, max(best.uncertainty, row.uncertainty)).
C24_BandIsClampedRoot ==
  \A rl \in AllRowLists :
    \A i \in DOMAIN rl, b \in DOMAIN rl :
      (rl[b].strictBest /\ rl[b].benchmark = rl[i].benchmark) =>
        LET bu == rl[b].uncertaintyPercent.v
            ru == rl[i].uncertaintyPercent.v
            root == ISqrt(bu * bu + ru * ru)
            band == rl[i].bestBandPercent
        IN  /\ band.k = "fin"
            /\ band.v = (IF root < 2 * Scale THEN 2 * Scale
                         ELSE IF root > 20 * Scale THEN 20 * Scale ELSE root)
            /\ 2 * Scale <= band.v /\ band.v <= 20 * Scale
            /\ band.v >= (IF bu >= ru THEN bu ELSE ru) \/ band.v = 20 * Scale

\* a row list with a band strictly inside (2, 20) from two different
\* uncertainties, and one with a band at the cap
C24_Witness ==
  /\ \E rl \in AllRowLists :
       \E i \in DOMAIN rl, b \in DOMAIN rl :
         /\ rl[b].strictBest /\ i # b
         /\ rl[b].uncertaintyPercent # rl[i].uncertaintyPercent
         /\ rl[i].bestBandPercent.v > 2 * Scale /\ rl[i].bestBandPercent.v < 20 * Scale
  /\ \E row \in AllRows : row.bestBandPercent.v = 20 * Scale

\* C25: deltaFromBestPercent is (best.score - row.score) / best.score * 100
\* when the best score of the group is not 0, and 0 otherwise; so the
\* strict-best row has delta 0, every row has a delta >= 0 when the best score
\* is positive, and when the best score is 0 every row of the group has delta 0
\* and is co-best.
C25_DeltaFromBest ==
  \A rl \in AllRowLists :
    \A i \in DOMAIN rl, b \in DOMAIN rl :
      (rl[b].strictBest /\ rl[b].benchmark = rl[i].benchmark) =>
        LET best == rl[b].latestScore
            score == rl[i].latestScore
            delta == rl[i].deltaFromBestPercent
        IN  /\ (IsFinite(best) /\ IsFinite(score) /\ best.v # 0) =>
                  delta = Fin(((best.v - score.v) * 100 * Scale) \div best.v)
            /\ IsZero(best) => delta = Fin(0) /\ rl[i].coBest
            /\ (i = b) => delta = Fin(0)
            /\ FGt(best, Fin(0)) => FLe(Fin(0), delta)

\* C26: for runs R before R' in the run order, the records of the snapshot of
\* R are among those of the snapshot of R', and every (version, benchmark) row
\* of the snapshot of R is in the snapshot of R' with at least as many samples.
C26_SnapshotsGrow ==
  \A i \in DOMAIN snapshots, j \in DOMAIN snapshots :
    (i < j) =>
      /\ Len(snapshots[i].records) <= Len(snapshots[j].records)
      /\ \A k \in DOMAIN snapshots[i].records :
           \E l \in DOMAIN snapshots[j].records :
             snapshots[j].records[l] = snapshots[i].records[k]
      /\ \A k \in DOMAIN snapshots[i].rows :
           \E l \in DOMAIN snapshots[j].rows :
             /\ snapshots[j].rows[l].version = snapshots[i].rows[k].version
             /\ snapshots[j].rows[l].benchmark = snapshots[i].rows[k].benchmark
             /\ snapshots[j].rows[l].samples >= snapshots[i].rows[k].samples

\* the second snapshot has a row the first has not, and a row of the first
\* with one more sample
C26_Witness ==
  /\ Len(snapshots) = 2
  /\ Len(snapshots[2].rows) > Len(snapshots[1].rows)
  /\ \E k \in DOMAIN snapshots[1].rows, l \in DOMAIN snapshots[2].rows :
       /\ snapshots[2].rows[l].version = snapshots[1].rows[k].version
       /\ snapshots[2].rows[l].benchmark = snapshots[1].rows[k].benchmark
       /\ snapshots[1].rows[k].samples = 1 /\ snapshots[2].rows[l].samples = 2

\* C27: in the snapshot of run R, the latestRun of every row is a run at or
\* before R in the run order, and a row whose (version, benchmark) has a record
\* in R itself has latestRun = R.
C27_SnapshotLatestIsItsRun ==
  \A i \in DOMAIN snapshots :
    \A k \in DOMAIN snapshots[i].rows :
      LET row == snapshots[i].rows[k]
          R == snapshots[i].run_id
      IN  /\ PositionIn(run_order, row.latestRun) <= PositionIn(run_order, R)
          /\ (\E n \in DOMAIN records :
                 /\ records[n].run_id = R
                 /\ records[n].version = row.version
                 /\ records[n].benchmark = row.benchmark)
               => row.latestRun = R

\* every (records, rows) pair computed so far
AllViews ==
  (IF MainView THEN {[records |-> records, rows |-> summary_rows]} ELSE {})
  \cup {[records |-> snapshots[i].records, rows |-> snapshots[i].rows] : i \in DOMAIN snapshots}

\* C28: summarize returns exactly one row per (version, benchmark) pair of
\* the records, in (benchmark, version) order; the history of a row has
\* 'samples' entries, which are the records of its pair, and the samples of all
\* rows sum to the number of records.
C28_RowsPartitionRecords ==
  \A view \in AllViews :
    LET recs == view.records
        rows == view.rows
    IN  /\ {<<rows[k].version, rows[k].benchmark>> : k \in DOMAIN rows}
             = {<<recs[n].version, recs[n].benchmark>> : n \in DOMAIN recs}
        /\ \A k \in DOMAIN rows, l \in DOMAIN rows :
             (k < l) =>
               \/ rows[k].benchmark < rows[l].benchmark
               \/ rows[k].benchmark = rows[l].benchmark /\ rows[k].version < rows[l].version
        /\ \A k \in DOMAIN rows :
             /\ Len(rows[k].history) = rows[k].samples
             /\ rows[k].samples
                  = Cardinality({n \in DOMAIN recs : /\ recs[n].version = rows[k].version
                                                     /\ recs[n].benchmark = rows[k].benchmark})
        /\ SumSeq([k \in DOMAIN rows |-> rows[k].samples]) = Len(recs)

\* a view of two benchmarks and three rows, one of them with two samples
C28_Witness ==
  \E view \in AllViews :
    /\ Len(view.rows) = 3
    /\ Cardinality({view.rows[k].benchmark : k \in DOMAIN view.rows}) = 2
    /\ \E k \in DOMAIN view.rows : view.rows[k].samples = 2
    /\ Len(view.records) = 4

\* no two records share (run id, version, benchmark)
NoRepeatedObservation(recs) ==
  \A i \in DOMAIN recs, j \in DOMAIN recs :
    (i # j) => <<recs[i].run_id, recs[i].version, recs[i].benchmark>>
                 # <<recs[j].run_id, recs[j].version, recs[j].benchmark>>

\* the record list in the order f, a permutation of its positions
Permuted(recs, f) == [i \in DOMAIN recs |-> recs[f[i]]]

\* C29: for a record list in which no two records share (run id, version,
\* benchmark), every permutation of the list gives the rows summarize gave and
\* the chart map build_chart_data_map gives.
C29_OrderIndependent ==
  (MainView /\ NoRepeatedObservation(records)) =>
    \A f \in Permutations(DOMAIN records) :
      /\ summarize(Permuted(records, f), pyStdev) = [raised |-> FALSE, rows |-> summary_rows]
      /\ build_chart_data_map(Permuted(records, f)) = build_chart_data_map(records)

\* four records of two runs and two versions, loaded in an order that is not
\* the (timestamp, run id) order
C29_Witness ==
  /\ MainView /\ Len(records) = 4
  /\ NoRepeatedObservation(records)
  /\ records # SortByKey(records)
  /\ Len(summary_rows) = 2

====
